---- MODULE Spec2Model ----
(***************************************************************************)
(* The webhook dispatcher of the CRM (src/src/lib/webhookUtils.ts,         *)
(* triggerWebhook) as a state machine.                                     *)
(*                                                                         *)
(* A JavaScript string is a sequence of symbols.  A symbol is either one   *)
(* character ("/", ":", "?", "#", " ", a letter of a URL scheme) or a run  *)
(* of letters and digits that holds no delimiter ("webhook", "n8n").  The  *)
(* scheme prefixes are always spelled character by character, so that      *)
(* startsWith('http://') is case-sensitive on them as it is in the code.   *)
(***************************************************************************)
EXTENDS Integers, Sequences, FiniteSets, TLC

VARIABLES
    registry,   \* the rows of the store's webhooks table
    call,       \* the triggerWebhook invocation: position and arguments
    attempts,   \* webhook id -> state of the map callback started for it
    requests,   \* the fetch calls issued by the invocation, in order
    queries,    \* number of registry queries the invocation has made
    user,       \* the session user useAuth() gives the forms
    ui,         \* the form submission under way, or the last one made
    contacts,   \* the rows of the store's contacts table
    activity_logs,  \* the rows of the store's activity_logs table
    dispatches, \* the triggerWebhook calls made by the forms, in order
    page,       \* the useState values of ContactsPage and WebhooksPage
    net         \* the store requests of the pages: in flight, and sent so far

formVars == <<user, ui, contacts, activity_logs, dispatches>>

pageVars == <<page, net>>

vars == <<registry, call, attempts, requests, queries, user, ui, contacts,
          activity_logs, dispatches, page, net>>

----------------------------------------------------------------------------
(* Bounds *)

MaxRows == 3        \* rows in the webhooks table
MaxTime == 1        \* clock readings 0..MaxTime seen by new Date()
MaxSegments == 2    \* path segments of a stored value

----------------------------------------------------------------------------
(* Strings *)

HTTP == <<"h", "t", "t", "p", ":", "/", "/">>
HTTPS == <<"h", "t", "t", "p", "s", ":", "/", "/">>
UPPERHTTP == <<"H", "T", "T", "P", ":", "/", "/">>
UPPERHTTPS == <<"H", "T", "T", "P", "S", ":", "/", "/">>

\* a column value of SQL NULL (JavaScript null)
Null == <<"<null>">>

DigitRuns == {"5678"}

StartsWith(s, p) ==
    /\ Len(s) >= Len(p)
    /\ SubSeq(s, 1, Len(p)) = p

\* first position >= from of s holding a symbol of D, Len(s)+1 when none
FirstIn(s, from, D) ==
    LET I == {i \in from..Len(s) : s[i] \in D}
    IN  IF I = {} THEN Len(s) + 1
        ELSE CHOOSE i \in I : \A j \in I : i <= j

ToLower(c) ==
    CASE c = "H" -> "h"
      [] c = "T" -> "t"
      [] c = "P" -> "p"
      [] c = "S" -> "s"
      [] OTHER -> c

LowerCase(s) == [i \in 1..Len(s) |-> ToLower(s[i])]

(***************************************************************************)
(* new URL(input) with no base, for http and https: the scheme is matched  *)
(* case-insensitively, every "/" after "scheme:" is skipped, the authority *)
(* runs to the first "/", "?" or "#", an empty host, a space in the host   *)
(* or a port that is not a number is a failure (TypeError).  pathname is   *)
(* "/" when the path is empty; search and hash are empty when the query or *)
(* fragment is empty.  Inputs hold no ".", "%", "\", "@" and no space      *)
(* outside the host, so dot-segment removal, percent-encoding and          *)
(* userinfo do not arise.                                                  *)
(***************************************************************************)
ParseURL(input) ==
    LET colon == FirstIn(input, 1, {":"})
        scheme == LowerCase(SubSeq(input, 1, colon - 1))
        special == colon <= Len(input) /\ scheme \in {<<"h", "t", "t", "p">>, <<"h", "t", "t", "p", "s">>}
        afterSlashes == CHOOSE i \in (colon + 1)..(Len(input) + 1) :
                            /\ \A j \in (colon + 1)..(i - 1) : input[j] = "/"
                            /\ (i = Len(input) + 1 \/ input[i] # "/")
        authEnd == FirstIn(input, afterSlashes, {"/", "?", "#"})
        authority == SubSeq(input, afterSlashes, authEnd - 1)
        portAt == FirstIn(authority, 1, {":"})
        host == SubSeq(authority, 1, portAt - 1)
        port == SubSeq(authority, portAt + 1, Len(authority))
        pathEnd == FirstIn(input, authEnd, {"?", "#"})
        queryEnd == FirstIn(input, pathEnd, {"#"})
        path == SubSeq(input, authEnd, pathEnd - 1)
        query == SubSeq(input, pathEnd, queryEnd - 1)
        fragment == SubSeq(input, queryEnd, Len(input))
        failure == [ok |-> FALSE, pathname |-> <<>>, search |-> <<>>, hash |-> <<>>]
    IN  IF ~special THEN failure
        ELSE IF host = <<>> \/ (\E i \in 1..Len(host) : host[i] = " ") THEN failure
        ELSE IF \E i \in 1..Len(port) : port[i] \notin DigitRuns THEN failure
        ELSE [ok |-> TRUE,
              pathname |-> IF path = <<>> THEN <<"/">> ELSE path,
              search |-> IF Len(query) <= 1 THEN <<>> ELSE query,
              hash |-> IF Len(fragment) <= 1 THEN <<>> ELSE fragment]

----------------------------------------------------------------------------
(* The path of one webhook, webhookUtils.ts lines 43-66 *)

OnlyNullPath(url) == url = Null

\* !webhook.url
NoPath(url) == url = Null \/ url = <<>>

TakesDoubleSlashForUrl(webhookPath) ==
    \/ StartsWith(webhookPath, HTTP)
    \/ StartsWith(webhookPath, HTTPS)
    \/ StartsWith(webhookPath, <<"/", "/">>)

\* webhookPath.startsWith('http://') || webhookPath.startsWith('https://')
LooksLikeFullUrl(webhookPath) ==
    StartsWith(webhookPath, HTTP) \/ StartsWith(webhookPath, HTTPS)

\* urlObject.pathname + urlObject.search + urlObject.hash
ExtractedPath(urlObject) ==
    urlObject.pathname \o urlObject.search \o urlObject.hash

AlwaysPrependSlash(webhookPath) == <<"/">> \o webhookPath

\* if (!webhookPath.startsWith('/')) webhookPath = '/' + webhookPath
EnsureLeadingSlash(webhookPath) ==
    IF ~StartsWith(webhookPath, <<"/">>) THEN <<"/">> \o webhookPath
    ELSE webhookPath

\* the callback's path computation: skip, or the normalized path
ResolvePath(url) ==
    IF NoPath(url) THEN [skip |-> TRUE, path |-> <<>>]
    ELSE IF LooksLikeFullUrl(url)
         THEN LET urlObject == ParseURL(url)
              IN  IF ~urlObject.ok THEN [skip |-> TRUE, path |-> <<>>]
                  ELSE [skip |-> FALSE,
                        path |-> EnsureLeadingSlash(ExtractedPath(urlObject))]
         ELSE [skip |-> FALSE, path |-> EnsureLeadingSlash(url)]

ApiPrefix == <<"/", "api", "/", "n8n">>

\* `/api/n8n${webhookPath}`
ProxiedUrl(webhookPath) == ApiPrefix \o webhookPath

----------------------------------------------------------------------------
(* Values *)

\* src/src/components/webhooks/AddWebhookForm.tsx, EVENT_TRIGGERS
EventTriggers == {"contact.created", "contact.updated", "activity.created"}

UserIds == {"u1", "u2", "u3"}

\* payload.userId when the caller passes none
NoUserId == "<undefined>"

\* the records callers hand over as payload.data (rows returned by the store)
Payloads ==
    { [id |-> "1", action |-> "Called"],
      [id |-> "2", action |-> "Emailed"] }

\* what a failing call throws or rejects with: an Error object, a string,
\* null, undefined
ThrownValues == {"Error", "string", "null", "undefined"}

Times == 0..MaxTime

RelPath == <<"webhook", "/", "abc">>
AbsPath == <<"/", "webhook", "/", "abc">>
FullUrl == HTTPS \o <<"n8n", "/", "webhook", "/", "abc", "?", "x", "#", "f">>
EmptyHostUrl == HTTP

(***************************************************************************)
(* The rows the webhooks table may hold.  The store keeps (user_id,        *)
(* event_trigger) unique, so there is one candidate row per pair.          *)
(***************************************************************************)
RowPool ==
    { [id |-> 1, user_id |-> "u1", event_trigger |-> "activity.created", url |-> RelPath],
      [id |-> 2, user_id |-> "u2", event_trigger |-> "activity.created", url |-> EmptyHostUrl],
      [id |-> 3, user_id |-> "u3", event_trigger |-> "activity.created", url |-> <<>>],
      [id |-> 4, user_id |-> "u1", event_trigger |-> "contact.created", url |-> AbsPath],
      [id |-> 5, user_id |-> "u2", event_trigger |-> "contact.created", url |-> Null],
      [id |-> 6, user_id |-> "u3", event_trigger |-> "contact.created", url |-> FullUrl],
      [id |-> 7, user_id |-> "u1", event_trigger |-> "contact.updated", url |-> AbsPath],
      [id |-> 8, user_id |-> "u2", event_trigger |-> "contact.updated", url |-> RelPath],
      [id |-> 9, user_id |-> "u3", event_trigger |-> "contact.updated", url |-> FullUrl] }

Registries == {R \in SUBSET RowPool : Cardinality(R) <= MaxRows}

----------------------------------------------------------------------------
(* triggerWebhook, webhookUtils.ts lines 14-107 *)

RECURSIVE InIdOrder(_)
InIdOrder(S) ==
    IF S = {} THEN <<>>
    ELSE LET m == CHOOSE x \in S : \A y \in S : x.id <= y.id
         IN  <<m>> \o InIdOrder(S \ {m})

SelectAllWebhooks(rows, eventType) ==
    InIdOrder({[id |-> r.id, url |-> r.url] : r \in rows})

\* supabase.from('webhooks').select('id, url').eq('event_trigger', eventType)
SelectWebhooks(rows, eventType) ==
    InIdOrder({[id |-> r.id, url |-> r.url] :
                  r \in {x \in rows : x.event_trigger = eventType}})

OnlyUndefinedUserId(userId) == userId = NoUserId

\* if (!userId)
MissingUserId(userId) == userId = NoUserId \/ userId = ""

\* evaluating (error.message || error) throws a TypeError for null, undefined
MessageOfThrows(v) == v \in {"null", "undefined"}

\* catch (error: any) { console.error(..., error.message || error) }
OuterCatch(v) == IF MessageOfThrows(v) THEN "rejected" ELSE "resolved"

\* catch (fetchCatchError: any) { console.error(..., fetchCatchError.message || fetchCatchError) }
InnerCatch(v) == IF MessageOfThrows(v) THEN "rejected" ELSE "errorCaught"

LookupErrorRejects(fetchError) == "rejected"

\* if (fetchError) { console.error(...); return; }
LookupErrorOutcome(fetchError) == "resolved"

\* JSON.stringify keeps the properties of a record whose value is defined
JSONValue(v) == [k \in {f \in DOMAIN v : v[f] # "<undefined>"} |-> v[k]]

UnproxiedRequest(webhook, webhookPath, eventType, userId, data, now) ==
    [webhook |-> webhook.id, method |-> "POST", url |-> webhookPath,
     body |-> [event |-> eventType, data |-> JSONValue(data), triggered_at |-> now]]

\* fetch(proxiedUrl, {method: 'POST', ..., body: JSON.stringify({event, data, triggered_at})})
PostRequest(webhook, webhookPath, eventType, userId, data, now) ==
    [webhook |-> webhook.id, method |-> "POST", url |-> ProxiedUrl(webhookPath),
     body |-> [event |-> eventType, data |-> JSONValue(data), triggered_at |-> now]]

\* the callback of webhooks.map up to its first await
StartAttempt(webhook) ==
    IF ResolvePath(webhook.url).skip THEN "skipped" ELSE "fetching"

IssueFirstOnly(webhooks, eventType, userId, data, now) ==
    LET usable == {i \in 1..Len(webhooks) : ~ResolvePath(webhooks[i].url).skip}
    IN  IF usable = {} THEN <<>>
        ELSE LET i == CHOOSE k \in usable : \A j \in usable : k <= j
             IN  <<PostRequest(webhooks[i], ResolvePath(webhooks[i].url).path,
                               eventType, userId, data, now)>>

RECURSIVE IssueRequests(_, _, _, _, _)
IssueRequests(webhooks, eventType, userId, data, now) ==
    IF webhooks = <<>> THEN <<>>
    ELSE LET webhook == Head(webhooks)
             r == ResolvePath(webhook.url)
         IN  (IF r.skip THEN <<>>
              ELSE <<PostRequest(webhook, r.path, eventType, userId, data, now)>>)
             \o IssueRequests(Tail(webhooks), eventType, userId, data, now)

Terminal == {"skipped", "succeeded", "failedHandled", "errorCaught", "rejected"}

ReturnsAtOnce(att) == TRUE

\* await Promise.allSettled(webhookPromises): every promise has settled
AllSettled(att) == \A w \in DOMAIN att : att[w] \in Terminal

PromiseAllOutcome(att) ==
    IF \E w \in DOMAIN att : att[w] = "rejected" THEN "rejected" ELSE "resolved"

\* Promise.allSettled fulfils whatever the promises did
AllSettledOutcome(att) == "resolved"

NoAttempts == [w \in {} |-> "skipped"]

Settled == {"idle", "resolved", "rejected"}

\* useAuth().user when nobody is signed in
NoSession == "<no user>"

UiIdle ==
    [form |-> "none", pc |-> "idle", loading |-> FALSE, toast |-> "none",
     reset |-> FALSE, onSuccess |-> FALSE, inserted |-> FALSE, values |-> <<>>,
     result |-> "none"]

None == "<null>"

\* the pages as mounted: no dialog open, nothing selected, nothing in flight;
\* webhookToDelete holds <<>> for null and <<webhook>> for a webhook
PageIdle ==
    [deletingContactId |-> None, isDeleteDialogOpen |-> FALSE,
     isDeleting |-> FALSE, webhookToDelete |-> <<>>, loading |-> FALSE,
     webhooksLoading |-> FALSE,
     contacts |-> {}, webhooks |-> {}, error |-> FALSE,
     searchTerm |-> "", selectedStatus |-> "all", updatingStatusId |-> None]

NetIdle ==
    [deletes |-> {}, sent |-> <<>>,
     asked |-> [contacts |-> None, webhooks |-> <<>>],
     fetches |-> {}, issued |-> 0, updates |-> {}]

PagesIdle == page = PageIdle /\ net = NetIdle

\* no form mounted
FormsIdle ==
    /\ PagesIdle
    /\ user = NoSession
    /\ ui = UiIdle
    /\ contacts = {}
    /\ activity_logs = {}
    /\ dispatches = <<>>

Init ==
    /\ FormsIdle
    /\ registry \in Registries
    /\ call = [pc |-> "idle", eventType |-> "", userId |-> "", data |-> <<>>,
               qres |-> "none", webhooks |-> <<>>]
    /\ attempts = NoAttempts
    /\ requests = <<>>
    /\ queries = 0

\* lines 14-27: the call up to its first await
Invoke(eventType, userId, data) ==
    /\ call.pc \in Settled
    /\ attempts' = NoAttempts
    /\ requests' = <<>>
    /\ IF MissingUserId(userId)
       THEN /\ call' = [pc |-> "resolved", eventType |-> eventType, userId |-> userId,
                        data |-> data, qres |-> "none", webhooks |-> <<>>]
            /\ queries' = 0
       ELSE /\ call' = [pc |-> "querying", eventType |-> eventType, userId |-> userId,
                        data |-> data, qres |-> "none", webhooks |-> <<>>]
            /\ queries' = 1
    /\ UNCHANGED registry

\* lines 24-32: the query resolves with an error
QueryFails ==
    /\ call.pc = "querying"
    /\ call' = [call EXCEPT !.pc = LookupErrorOutcome("error"), !.qres = "error"]
    /\ UNCHANGED <<registry, attempts, requests, queries>>
    /\ UNCHANGED formVars
    /\ UNCHANGED pageVars

\* lines 24-37: the query resolves with data null and no error
QueryNoData ==
    /\ call.pc = "querying"
    /\ call' = [call EXCEPT !.pc = "resolved", !.qres = "null"]
    /\ UNCHANGED <<registry, attempts, requests, queries>>
    /\ UNCHANGED formVars
    /\ UNCHANGED pageVars

\* lines 24-101: the query resolves with rows; an empty array returns, any
\* other is mapped (every callback runs to its fetch) and joined
QueryReturns(now) ==
    /\ call.pc = "querying"
    /\ LET webhooks == SelectWebhooks(registry, call.eventType)
       IN  IF Len(webhooks) = 0
           THEN /\ call' = [call EXCEPT !.pc = "resolved", !.qres = "empty"]
                /\ UNCHANGED <<attempts, requests>>
           ELSE /\ call' = [call EXCEPT !.pc = "joining", !.qres = "rows",
                                        !.webhooks = webhooks]
                /\ attempts' = [w \in {webhooks[i].id : i \in 1..Len(webhooks)} |->
                                   StartAttempt(CHOOSE x \in {webhooks[i] : i \in 1..Len(webhooks)} : x.id = w)]
                /\ requests' = IssueRequests(webhooks, call.eventType, call.userId,
                                             call.data, now)
    /\ UNCHANGED <<registry, queries>>
    /\ UNCHANGED formVars
    /\ UNCHANGED pageVars

\* lines 24-27, 103-106: the query throws or rejects with value v
QueryThrows(v) ==
    /\ call.pc = "querying"
    /\ call' = [call EXCEPT !.pc = OuterCatch(v), !.qres = "threw"]
    /\ UNCHANGED <<registry, attempts, requests, queries>>
    /\ UNCHANGED formVars
    /\ UNCHANGED pageVars

\* lines 69-94: fetch resolves with a response
FetchResponds(w, ok) ==
    /\ w \in DOMAIN attempts
    /\ attempts[w] = "fetching"
    /\ attempts' = [attempts EXCEPT ![w] = IF ok THEN "succeeded" ELSE "readingBody"]
    /\ UNCHANGED <<registry, call, requests, queries>>
    /\ UNCHANGED formVars
    /\ UNCHANGED pageVars

\* lines 86-91: response.text() settles, read or not
BodySettles(w) ==
    /\ w \in DOMAIN attempts
    /\ attempts[w] = "readingBody"
    /\ attempts' = [attempts EXCEPT ![w] = "failedHandled"]
    /\ UNCHANGED <<registry, call, requests, queries>>
    /\ UNCHANGED formVars
    /\ UNCHANGED pageVars

FetchRejectsRetryOnce(w, v) ==
    /\ w \in DOMAIN attempts
    /\ attempts[w] = "fetching"
    /\ IF Cardinality({j \in 1..Len(requests) : requests[j].webhook = w}) < 2
       THEN /\ requests' = Append(requests,
                    requests[CHOOSE j \in 1..Len(requests) : requests[j].webhook = w])
            /\ UNCHANGED attempts
       ELSE /\ attempts' = [attempts EXCEPT ![w] = InnerCatch(v)]
            /\ UNCHANGED requests
    /\ UNCHANGED <<registry, call, queries>>
    /\ UNCHANGED formVars
    /\ UNCHANGED pageVars

\* lines 69, 95-97: fetch rejects with value v
FetchRejects(w, v) ==
    /\ w \in DOMAIN attempts
    /\ attempts[w] = "fetching"
    /\ attempts' = [attempts EXCEPT ![w] = InnerCatch(v)]
    /\ UNCHANGED <<registry, call, requests, queries>>
    /\ UNCHANGED formVars
    /\ UNCHANGED pageVars

\* line 101: Promise.allSettled resolves and the call returns
Join ==
    /\ call.pc = "joining"
    /\ AllSettled(attempts)
    /\ call' = [call EXCEPT !.pc = AllSettledOutcome(attempts)]
    /\ UNCHANGED <<registry, attempts, requests, queries>>
    /\ UNCHANGED formVars
    /\ UNCHANGED pageVars

Next ==
    \/ \E e \in EventTriggers, u \in UserIds \cup {NoUserId, ""}, d \in Payloads :
           Invoke(e, u, d) /\ UNCHANGED formVars /\ UNCHANGED pageVars
    \/ QueryFails
    \/ QueryNoData
    \/ \E now \in Times : QueryReturns(now)
    \/ \E v \in ThrownValues : QueryThrows(v)
    \/ \E w \in DOMAIN attempts, ok \in BOOLEAN : FetchResponds(w, ok)
    \/ \E w \in DOMAIN attempts : BodySettles(w)
    \/ \E w \in DOMAIN attempts, v \in ThrownValues : FetchRejects(w, v)
    \/ Join

Spec == Init /\ [][Next]_vars

----------------------------------------------------------------------------
(* Stored values: every shape the url column can hold *)

Schemes == {HTTP, HTTPS, UPPERHTTPS}
Hosts == {<<"n8n">>, <<"n8n", ":", "5678">>}
Segments == {"webhook", "abc"}
Queries == {<<>>, <<"?">>, <<"?", "x">>}
Fragments == {<<>>, <<"#">>, <<"#", "f">>}

RECURSIVE PathsOf(_)
PathsOf(n) ==
    IF n = 0 THEN {<<>>}
    ELSE PathsOf(n - 1) \cup
         {p \o <<"/", g>> : p \in {q \in PathsOf(n - 1) : Len(q) = 2 * (n - 1)},
                            g \in Segments}

Paths == PathsOf(MaxSegments) \cup {<<"/">>}

\* a fully-qualified URL by its components
UrlParts ==
    [scheme : Schemes, host : Hosts, path : Paths, query : Queries,
     fragment : Fragments]

Href(c) == c.scheme \o c.host \o c.path \o c.query \o c.fragment

MalformedUrls ==
    { HTTP,
      HTTPS \o <<"/">>,
      HTTPS \o <<" ", "/", "abc">>,
      HTTP \o <<"n8n", ":", "abc", "/", "abc">> }

PlainPaths ==
    {p \in Paths : p # <<>>} \cup {Tail(p) : p \in {q \in Paths : Len(q) > 1}}
        \cup {<<"/", "/", "n8n", "/", "abc">>, <<"abc", "?", "x">>}

StoredValues ==
    {Href(c) : c \in UrlParts} \cup MalformedUrls \cup PlainPaths \cup {Null, <<>>}

InitUrls ==
    /\ FormsIdle
    /\ \E u \in StoredValues :
           registry = {[id |-> 1, user_id |-> "u1",
                        event_trigger |-> "activity.created", url |-> u]}
    /\ call = [pc |-> "idle", eventType |-> "", userId |-> "", data |-> <<>>,
               qres |-> "none", webhooks |-> <<>>]
    /\ attempts = NoAttempts
    /\ requests = <<>>
    /\ queries = 0

\* the dispatcher over a table of one row holding any stored value
SpecUrls == InitUrls /\ [][Next]_vars

----------------------------------------------------------------------------
(* Properties *)

Returned == call.pc \in {"resolved", "rejected"}

\* the rows the query handed to the map, as a set
Matched == {call.webhooks[i] : i \in 1..Len(call.webhooks)}

RequestsFor(id) == {j \in 1..Len(requests) : requests[j].webhook = id}

\* a stored value that is non-empty and, when it begins with http:// or
\* https://, parses as a URL
WellFormed(url) ==
    /\ url # Null
    /\ url # <<>>
    /\ (StartsWith(url, HTTP) \/ StartsWith(url, HTTPS)) => ParseURL(url).ok

\* C1: the promise triggerWebhook returns never rejects, whatever fails and
\* whatever value the failing call throws or rejects with.
C1_NeverRejects == call.pc # "rejected"

\* C2: once the query has returned rows, every row with a usable path has
\* had its POST issued, a failed response or a network exception of one
\* attempt leaves every other attempt to run to its own end, and the call
\* completes normally.
C2_AllAttemptedNoShortCircuit ==
    call.qres = "rows" =>
        /\ \A w \in Matched : WellFormed(w.url) => RequestsFor(w.id) # {}
        /\ call.pc # "rejected"
        /\ call.pc = "resolved" =>
               \A w \in Matched :
                   WellFormed(w.url) =>
                       attempts[w.id] \in {"succeeded", "failedHandled",
                                           "errorCaught", "rejected"}

\* C2 witness: three POSTs were issued, one got a failed response, one a
\* network exception, one succeeded, and the call has returned normally.
C2_Witness ==
    /\ call.pc = "resolved"
    /\ Len(requests) = 3
    /\ \E a, b, c \in DOMAIN attempts :
           /\ attempts[a] = "failedHandled"
           /\ attempts[b] \in {"errorCaught", "rejected"}
           /\ attempts[c] = "succeeded"

\* C3: when the call has returned, no attempt it started is still fetching
\* or still handling its response.
C3_ReturnsAfterAllSettled ==
    Returned =>
        \A w \in DOMAIN attempts :
            attempts[w] \in {"skipped", "succeeded", "failedHandled",
                             "errorCaught", "rejected"}

\* C3 witness: the call has returned after two POSTs, one of them having
\* gone through the handling of a failed response.
C3_Witness ==
    /\ call.pc = "resolved"
    /\ Len(requests) >= 2
    /\ \E w \in DOMAIN attempts : attempts[w] = "failedHandled"
    /\ \E w \in DOMAIN attempts : attempts[w] = "skipped"

\* C4: when the registry query answers with an error, with no data or with
\* an empty array, no HTTP request is issued and the call returns normally;
\* a query that throws issues no request either.
C4_NoRowsNoRequest ==
    /\ call.qres \in {"error", "null", "empty"} =>
           /\ requests = <<>>
           /\ attempts = NoAttempts
           /\ call.pc = "resolved"
    /\ call.qres = "threw" => requests = <<>> /\ attempts = NoAttempts

\* C4 witness: the query failed although the table holds a usable row for
\* the event, and the call has returned.
C4_Witness ==
    /\ call.qres = "error"
    /\ Returned
    /\ \E r \in registry : r.event_trigger = call.eventType /\ WellFormed(r.url)

\* C5: with userId absent or empty the call makes no registry query, issues
\* no request and returns normally.
C5_NoUserIdNoOp ==
    (call.pc # "idle" /\ call.userId \in {NoUserId, ""}) =>
        /\ queries = 0
        /\ requests = <<>>
        /\ attempts = NoAttempts
        /\ call.pc = "resolved"

\* C5 witness: a call with the empty user id has returned while the table
\* holds a usable row for its event.
C5_Witness ==
    /\ call.pc = "resolved"
    /\ call.userId = ""
    /\ \E r \in registry : r.event_trigger = call.eventType /\ WellFormed(r.url)

\* C6: a matched row whose url is null, empty or an unparseable http(s)
\* value gets no request, every other matched row gets exactly one, so the
\* number of POSTs is the number of matched rows with a well-formed url.
C6_BadPathSkippedOthersAttempted ==
    call.qres = "rows" =>
        /\ \A w \in Matched :
               IF WellFormed(w.url)
               THEN Cardinality(RequestsFor(w.id)) = 1
               ELSE RequestsFor(w.id) = {} /\ attempts[w.id] = "skipped"
        /\ Len(requests) = Cardinality({w \in Matched : WellFormed(w.url)})

\* C6 witness: of three matched rows one has an empty url and one a
\* malformed http value; the third got the only POST.
C6_Witness ==
    /\ call.qres = "rows"
    /\ Len(requests) = 1
    /\ \E a, b \in Matched : a.url = <<>> /\ b.url \in MalformedUrls

\* the path + query + fragment of the URL with components c (URL API:
\* pathname, search, hash)
PathQueryFragment(c) ==
    (IF c.path = <<>> THEN <<"/">> ELSE c.path)
        \o (IF Len(c.query) <= 1 THEN <<>> ELSE c.query)
        \o (IF Len(c.fragment) <= 1 THEN <<>> ELSE c.fragment)

\* C7: for every stored value that is a fully-qualified URL the request goes
\* to the prefix followed by that URL's path + query + fragment, with no
\* scheme and no host in it.
C7_FullUrlPathExtracted ==
    call.qres = "rows" =>
        \A w \in Matched : \A c \in UrlParts :
            w.url = Href(c) =>
                /\ RequestsFor(w.id) # {}
                /\ \A j \in RequestsFor(w.id) :
                       requests[j].url = <<"/", "api", "/", "n8n">> \o PathQueryFragment(c)

\* the part of a request's target after the routing prefix
DeliveredPath(req) == SubSeq(req.url, 5, Len(req.url))

\* C8: a stored path without a leading "/" is delivered with exactly one "/"
\* prepended, one with a leading "/" is delivered unchanged, and normalizing
\* the delivered path again changes nothing.
C8_LeadingSlashNormalization ==
    \A w \in Matched : \A j \in RequestsFor(w.id) :
        (~StartsWith(w.url, HTTP) /\ ~StartsWith(w.url, HTTPS)) =>
            /\ Head(w.url) = "/" => DeliveredPath(requests[j]) = w.url
            /\ Head(w.url) # "/" => DeliveredPath(requests[j]) = <<"/">> \o w.url
            /\ EnsureLeadingSlash(DeliveredPath(requests[j])) = DeliveredPath(requests[j])
            /\ EnsureLeadingSlash(EnsureLeadingSlash(w.url)) = EnsureLeadingSlash(w.url)

\* C8 witness: a stored path with no leading "/" has been delivered.
C8_Witness ==
    \E w \in Matched :
        /\ w.url \in PlainPaths
        /\ Head(w.url) # "/"
        /\ RequestsFor(w.id) # {}

\* C9: every request is a POST to "/api/n8n" followed by the normalized path,
\* with a body holding the call's event type, the caller's data unchanged and
\* a timestamp; event activity.created with stored path webhook/abc gives
\* POST /api/n8n/webhook/abc.
C9_RequestShape ==
    \A w \in Matched : \A j \in RequestsFor(w.id) :
        /\ requests[j].method = "POST"
        /\ StartsWith(requests[j].url, <<"/", "api", "/", "n8n">>)
        /\ DeliveredPath(requests[j]) = ResolvePath(w.url).path
        /\ requests[j].body.event = call.eventType
        /\ requests[j].body.data = call.data
        /\ requests[j].body.triggered_at \in Times
        /\ (call.eventType = "activity.created" /\ w.url = <<"webhook", "/", "abc">>) =>
               requests[j].url = <<"/", "api", "/", "n8n", "/", "webhook", "/", "abc">>

\* C9 witness: event activity.created was posted for the stored path
\* webhook/abc.
C9_Witness ==
    /\ call.eventType = "activity.created"
    /\ \E w \in Matched :
           w.url = <<"webhook", "/", "abc">> /\ RequestsFor(w.id) # {}

\* C10: every request of the call goes to a row of the table whose
\* event_trigger is the call's event type.
C10_OnlyMatchingTrigger ==
    \A j \in 1..Len(requests) :
        \E r \in registry :
            r.id = requests[j].webhook /\ r.event_trigger = call.eventType

\* C10 witness: a request has been issued while the table holds a usable row
\* registered for another trigger.
C10_Witness ==
    /\ requests # <<>>
    /\ \E r \in registry : r.event_trigger # call.eventType /\ WellFormed(r.url)

\* C11: every webhook that gets a POST from the call is owned by the acting
\* user: its user_id is the call's userId.
C11_TenantScoped ==
    \A j \in 1..Len(requests) :
        \A r \in registry :
            r.id = requests[j].webhook => r.user_id = call.userId

\* C12: a call issues at most one POST per webhook row, and after the
\* requests of a call have been issued none is added, whatever the attempts
\* end in, until the caller starts another call.
C12_NoRetry ==
    [][/\ \A i, j \in 1..Len(requests') :
              requests'[i].webhook = requests'[j].webhook => i = j
       /\ requests' # requests =>
              \/ call.pc = "querying" /\ requests = <<>>
              \/ call.pc \in Settled /\ requests' = <<>>]_vars

\* C12 witness: the call has returned with one attempt ended by a failed
\* response and one by a network exception, each row having one request.
C12_Witness ==
    /\ call.pc = "resolved"
    /\ \E a, b \in DOMAIN attempts :
           /\ attempts[a] = "failedHandled"
           /\ attempts[b] = "errorCaught"
           /\ Cardinality(RequestsFor(a)) = 1
           /\ Cardinality(RequestsFor(b)) = 1

-----------------------------------------------------------------------------
(* AddActivityLogForm, AddActivityLogForm.tsx *)

\* rows the activity_logs table may hold in a run
MaxLogs == 2

\* the dispatcher's steps after the call's first await
DispatcherStep ==
    \/ QueryFails
    \/ QueryNoData
    \/ \E now \in Times : QueryReturns(now)
    \/ \E v \in ThrownValues : QueryThrows(v)
    \/ \E w \in DOMAIN attempts, ok \in BOOLEAN : FetchResponds(w, ok)
    \/ \E w \in DOMAIN attempts : BodySettles(w)
    \/ \E w \in DOMAIN attempts, v \in ThrownValues : FetchRejects(w, v)
    \/ Join

\* the contactId prop of the form
ContactId == "c1"

\* what the user can type into the form: action, description
ActivityLogValues == [action : {"", "Called", "Note"}, description : {"", "d"}]

\* activityLogSchema: action: z.string().min(1), description optional
ActivityLogValid(values) == values.action # ""

\* values.description || null
OrNull(text) == IF text = "" THEN "<null>" ELSE text

\* the row .insert([...]).select().single() returns
NewActivity(values) ==
    [id |-> ToString(Cardinality(activity_logs) + 1), user_id |-> user,
     contact_id |-> ContactId, action |-> values.action,
     description |-> OrNull(values.description)]

AwaitsDispatch(form) ==
    [form EXCEPT !.pc = "awaitingDispatch", !.inserted = TRUE, !.values = <<>>]

\* lines 85-93, run in the step that called triggerWebhook: toast.success,
\* form.reset(), onSuccess(), finally setLoading(false)
AfterDispatchCall(form) ==
    [form EXCEPT !.pc = "done", !.inserted = TRUE, !.toast = "success",
                 !.reset = TRUE, !.onSuccess = TRUE, !.loading = FALSE,
                 !.values = <<>>, !.result = "record"]

\* lines 81-93 when newActivity is null: triggerWebhook is not called;
\* toast.success, form.reset(), onSuccess(), finally setLoading(false)
AfterNoRecord(form, stored) ==
    [form EXCEPT !.pc = "done", !.inserted = stored, !.toast = "success",
                 !.reset = TRUE, !.onSuccess = TRUE, !.loading = FALSE,
                 !.values = <<>>, !.result = "nothing"]

ReportsSuccess(form) ==
    [form EXCEPT !.pc = "done", !.toast = "success", !.reset = TRUE,
                 !.onSuccess = TRUE, !.loading = FALSE, !.values = <<>>,
                 !.result = "error"]

\* catch (error) { toast.error(...) } finally { setLoading(false) }
AfterError(form) ==
    [form EXCEPT !.pc = "done", !.toast = "error", !.loading = FALSE,
                 !.values = <<>>, !.result = "error"]

\* form.handleSubmit(onSubmit) and onSubmit up to its first await; the submit
\* button is disabled while loading
SubmitActivityLog(values) ==
    /\ ~ui.loading
    /\ ui' = IF ~ActivityLogValid(values)
             THEN [UiIdle EXCEPT !.form = "activity", !.pc = "invalid"]
             ELSE IF user = NoSession
             THEN [UiIdle EXCEPT !.form = "activity", !.pc = "done",
                                 !.toast = "error"]
             ELSE [UiIdle EXCEPT !.form = "activity", !.pc = "inserting",
                                 !.loading = TRUE, !.values = values]
    /\ UNCHANGED <<registry, call, attempts, requests, queries>>
    /\ UNCHANGED <<user, contacts, activity_logs, dispatches>>
    /\ UNCHANGED pageVars

\* line 79: the insert resolves with an error
ActivityInsertFails ==
    /\ ui.form = "activity"
    /\ ui.pc = "inserting"
    /\ ui' = AfterError(ui)
    /\ UNCHANGED <<registry, call, attempts, requests, queries>>
    /\ UNCHANGED <<user, contacts, activity_logs, dispatches>>
    /\ UNCHANGED pageVars

\* lines 81-93: the insert resolves with the new row; triggerWebhook is
\* called and not awaited.  One dispatcher call is followed at a time, so the
\* step waits for the call before it to settle.
ActivityInsertReturns ==
    /\ ui.form = "activity"
    /\ ui.pc = "inserting"
    /\ Cardinality(activity_logs) < MaxLogs
    /\ LET newActivity == NewActivity(ui.values)
       IN  /\ activity_logs' = activity_logs \cup {newActivity}
           /\ Invoke("activity.created", user, newActivity)
           /\ dispatches' = Append(dispatches,
                  [event |-> "activity.created", userId |-> user,
                   data |-> newActivity])
    /\ ui' = AfterDispatchCall(ui)
    /\ UNCHANGED <<user, contacts>>
    /\ UNCHANGED pageVars

\* lines 65-93: the insert resolves with neither an error nor a row, the
\* case the test of newActivity provides for; whether the store kept the row
\* is then open
ActivityInsertReturnsNothing(stored) ==
    /\ ui.form = "activity"
    /\ ui.pc = "inserting"
    /\ stored => Cardinality(activity_logs) < MaxLogs
    /\ activity_logs' = IF stored THEN activity_logs \cup {NewActivity(ui.values)}
                        ELSE activity_logs
    /\ ui' = AfterNoRecord(ui, stored)
    /\ UNCHANGED <<registry, call, attempts, requests, queries>>
    /\ UNCHANGED <<user, contacts, dispatches>>
    /\ UNCHANGED pageVars

\* a signed-in or signed-out session in front of a table that holds some of
\* the activity.created webhooks
InitActivity ==
    /\ PagesIdle
    /\ user \in {NoSession, "u1", "u2"}
    /\ ui = UiIdle
    /\ contacts = {}
    /\ activity_logs = {}
    /\ dispatches = <<>>
    /\ registry \in {R \in Registries :
                        \A r \in R : r.event_trigger = "activity.created"}
    /\ call = [pc |-> "idle", eventType |-> "", userId |-> "", data |-> <<>>,
               qres |-> "none", webhooks |-> <<>>]
    /\ attempts = NoAttempts
    /\ requests = <<>>
    /\ queries = 0

NextActivity ==
    \/ \E values \in ActivityLogValues : SubmitActivityLog(values)
    \/ ActivityInsertFails
    \/ ActivityInsertReturns
    \/ \E stored \in BOOLEAN : ActivityInsertReturnsNothing(stored)
    \/ DispatcherStep

SpecActivity == InitActivity /\ [][NextActivity]_vars

\* C13: once the activity insert has succeeded the form shows the success
\* toast, is reset, has called onSuccess and is no longer loading, in every
\* state of the dispatch: in flight, resolved or rejected.
C13_DispatchDecoupled ==
    (ui.form = "activity" /\ ui.inserted) =>
        /\ ui.toast = "success"
        /\ ui.reset
        /\ ui.onSuccess
        /\ ~ui.loading

\* C13 witness: the insert succeeded and the form is done while a POST of the
\* dispatch it started is still in flight.
C13_Witness ==
    /\ ui.form = "activity"
    /\ ui.inserted
    /\ ui.toast = "success"
    /\ call.pc = "joining"
    /\ \E w \in DOMAIN attempts : attempts[w] = "fetching"

-----------------------------------------------------------------------------
(* CreateContactForm, EditContactForm, ContactsPage.handleStatusChange *)

\* rows the contacts table may hold in a run
MaxContacts == 2

\* e-mail addresses are sequences of symbols: "@", "." or a run of letters
OneLetter == {"a", "b", "c"}

Emails ==
    { <<>>,
      <<"ann">>,
      <<"ann", "@", "x">>,
      <<"@", "x", ".", "org">>,
      <<".", "ann", "@", "x", ".", "org">>,
      <<"ann", "@", "x", ".", "c">>,
      <<"ann", "@", "x", ".", "org">>,
      <<"a", ".", "b", "@", "x", ".", "org">> }

IsWord(sym) == sym \notin {"@", "."}

\* words separated by single dots, a word first and last
DottedWords(s) ==
    /\ Len(s) % 2 = 1
    /\ \A i \in 1..Len(s) : IF i % 2 = 1 THEN IsWord(s[i]) ELSE s[i] = "."

\* z.string().email(): local part without a leading, trailing or doubled
\* dot, "@", one or more labels each followed by a dot, a top-level label of
\* two or more letters
ValidEmail(e) ==
    \E k \in 1..Len(e) :
        /\ e[k] = "@"
        /\ DottedWords(SubSeq(e, 1, k - 1))
        /\ DottedWords(SubSeq(e, k + 1, Len(e)))
        /\ Len(e) - k >= 3
        /\ e[Len(e)] \notin OneLetter

\* what the user can enter; company, source and notes are optional free text
\* written the way status is and are left out
ContactValues == [name : {"", "Ann"}, email : Emails, status : {"", "Lead"}]

\* what the user can enter into EditContactForm, whose status field is a
\* free-text input
EditContactValues ==
    [name : {"", "Ann"}, email : Emails, status : {"", "Lead", "VIP"}]

AcceptsAnyContact(values) == TRUE

\* contactFormSchema of CreateContactForm: name min(1), email()
ContactFormValid(values) == values.name # "" /\ ValidEmail(values.email)

\* contactFormSchema of EditContactForm
EditContactFormValid(values) == values.name # "" /\ ValidEmail(values.email)

\* STATUS_OPTIONS of ContactsPage
StatusOptions == {"Lead", "Prospect"}

\* the row .insert([...]).select().single() returns
NewContact(values) ==
    [id |-> ToString(Cardinality(contacts) + 1), user_id |-> user,
     name |-> values.name, email |-> values.email,
     status |-> OrNull(values.status)]

\* the row of the automatic activity log
CreatedLog(newContactData) ==
    [id |-> ToString(Cardinality(activity_logs) + 1), user_id |-> user,
     contact_id |-> newContactData.id, action |-> "Created",
     description |-> <<"Contact ", newContactData.name, " created.">>]

\* form.handleSubmit(onSubmit) and onSubmit up to the contact insert
SubmitContact(values) ==
    /\ ~ui.loading
    /\ ui' = IF ~ContactFormValid(values)
             THEN [UiIdle EXCEPT !.form = "createContact", !.pc = "invalid"]
             ELSE IF user = NoSession
             THEN [UiIdle EXCEPT !.form = "createContact", !.pc = "done",
                                 !.toast = "error"]
             ELSE [UiIdle EXCEPT !.form = "createContact",
                                 !.pc = "insertingContact",
                                 !.loading = TRUE, !.values = values]
    /\ UNCHANGED <<registry, call, attempts, requests, queries>>
    /\ UNCHANGED <<user, contacts, activity_logs, dispatches>>
    /\ UNCHANGED pageVars

\* lines 262-266: the insert resolves with an error or without a row
ContactInsertFails ==
    /\ ui.form = "createContact"
    /\ ui.pc = "insertingContact"
    /\ ui' = AfterError(ui)
    /\ UNCHANGED <<registry, call, attempts, requests, queries>>
    /\ UNCHANGED <<user, contacts, activity_logs, dispatches>>
    /\ UNCHANGED pageVars

\* lines 246-273: the insert returns the row; toast.success, then the insert
\* of the automatic activity log is started
ContactInsertReturns ==
    /\ ui.form = "createContact"
    /\ ui.pc = "insertingContact"
    /\ Cardinality(contacts) < MaxContacts
    /\ LET newContactData == NewContact(ui.values)
       IN  /\ contacts' = contacts \cup {newContactData}
           /\ ui' = [ui EXCEPT !.pc = "loggingActivity", !.inserted = TRUE,
                               !.toast = "success", !.values = newContactData]
    /\ UNCHANGED <<registry, call, attempts, requests, queries>>
    /\ UNCHANGED <<user, activity_logs, dispatches>>
    /\ UNCHANGED pageVars

\* lines 273-294: the activity log is stored; form.reset(), onSuccess()
CreatedLogInserted ==
    /\ ui.form = "createContact"
    /\ ui.pc = "loggingActivity"
    /\ activity_logs' = activity_logs \cup {CreatedLog(ui.values)}
    /\ ui' = [ui EXCEPT !.pc = "done", !.reset = TRUE, !.onSuccess = TRUE,
                        !.loading = FALSE, !.values = <<>>]
    /\ UNCHANGED <<registry, call, attempts, requests, queries>>
    /\ UNCHANGED <<user, contacts, dispatches>>
    /\ UNCHANGED pageVars

LogFailureEscapes(thrown) ==
    /\ ui.form = "createContact"
    /\ ui.pc = "loggingActivity"
    /\ ui' = AfterError(ui)
    /\ UNCHANGED <<registry, call, attempts, requests, queries>>
    /\ UNCHANGED <<user, contacts, activity_logs, dispatches>>
    /\ UNCHANGED pageVars

\* lines 284-291: the log insert resolves with logError (toast.warning) or
\* throws into the inner catch; the form is reset and closed all the same
CreatedLogFails(thrown) ==
    /\ ui.form = "createContact"
    /\ ui.pc = "loggingActivity"
    /\ ui' = [ui EXCEPT !.pc = "done", !.reset = TRUE, !.onSuccess = TRUE,
                        !.loading = FALSE, !.values = <<>>,
                        !.toast = IF thrown THEN @ ELSE "warning"]
    /\ UNCHANGED <<registry, call, attempts, requests, queries>>
    /\ UNCHANGED <<user, contacts, activity_logs, dispatches>>
    /\ UNCHANGED pageVars

\* EditContactForm: form.handleSubmit(onSubmit) and onSubmit up to the update
SubmitContactEdit(contact, values) ==
    /\ ~ui.loading
    /\ contact \in contacts
    /\ ui' = IF ~EditContactFormValid(values)
             THEN [UiIdle EXCEPT !.form = "editContact", !.pc = "invalid"]
             ELSE [UiIdle EXCEPT !.form = "editContact", !.pc = "updating",
                                 !.loading = TRUE,
                                 !.values = [id |-> contact.id,
                                             name |-> values.name,
                                             email |-> values.email,
                                             status |-> OrNull(values.status)]]
    /\ UNCHANGED <<registry, call, attempts, requests, queries>>
    /\ UNCHANGED <<user, contacts, activity_logs, dispatches>>
    /\ UNCHANGED pageVars

\* EditContactForm lines 71-88: update(...).eq('id', contact.id) succeeds
ContactUpdateReturns ==
    /\ ui.form = "editContact"
    /\ ui.pc = "updating"
    /\ contacts' = { IF c.id = ui.values.id
                     THEN [c EXCEPT !.name = ui.values.name,
                                    !.email = ui.values.email,
                                    !.status = ui.values.status]
                     ELSE c : c \in contacts }
    /\ ui' = [ui EXCEPT !.pc = "done", !.inserted = TRUE, !.toast = "success",
                        !.onSuccess = TRUE, !.loading = FALSE, !.values = <<>>]
    /\ UNCHANGED <<registry, call, attempts, requests, queries>>
    /\ UNCHANGED <<user, activity_logs, dispatches>>
    /\ UNCHANGED pageVars

\* ContactsPage lines 166-172: the inline status select
StatusChange(contactId, newStatus) ==
    /\ ~ui.loading
    /\ \E c \in contacts : c.id = contactId
    /\ ui' = [UiIdle EXCEPT !.form = "statusChange", !.pc = "updating",
                            !.loading = TRUE,
                            !.values = [id |-> contactId, status |-> newStatus]]
    /\ UNCHANGED <<registry, call, attempts, requests, queries>>
    /\ UNCHANGED <<user, contacts, activity_logs, dispatches>>
    /\ UNCHANGED pageVars

\* ContactsPage lines 168-187: update({status}).eq('id', contactId) succeeds
StatusUpdateReturns ==
    /\ ui.form = "statusChange"
    /\ ui.pc = "updating"
    /\ contacts' = { IF c.id = ui.values.id
                     THEN [c EXCEPT !.status = ui.values.status]
                     ELSE c : c \in contacts }
    /\ ui' = [ui EXCEPT !.pc = "done", !.inserted = TRUE, !.toast = "success",
                        !.loading = FALSE, !.values = <<>>]
    /\ UNCHANGED <<registry, call, attempts, requests, queries>>
    /\ UNCHANGED <<user, activity_logs, dispatches>>
    /\ UNCHANGED pageVars

\* either update resolves with an error
UpdateFails ==
    /\ ui.form \in {"editContact", "statusChange"}
    /\ ui.pc = "updating"
    /\ ui' = AfterError(ui)
    /\ UNCHANGED <<registry, call, attempts, requests, queries>>
    /\ UNCHANGED <<user, contacts, activity_logs, dispatches>>
    /\ UNCHANGED pageVars

\* a session in front of a webhooks table that is empty or holds u1's
\* webhooks for the contact events
InitContacts ==
    /\ PagesIdle
    /\ user \in {NoSession, "u1"}
    /\ ui = UiIdle
    /\ contacts = {}
    /\ activity_logs = {}
    /\ dispatches = <<>>
    /\ registry \in {{}, {r \in RowPool : /\ r.event_trigger # "activity.created"
                                         /\ r.user_id = "u1"}}
    /\ call = [pc |-> "idle", eventType |-> "", userId |-> "", data |-> <<>>,
               qres |-> "none", webhooks |-> <<>>]
    /\ attempts = NoAttempts
    /\ requests = <<>>
    /\ queries = 0

\* none of these handlers calls triggerWebhook, so no dispatcher step is
\* ever enabled
NextContacts ==
    \/ \E values \in ContactValues : SubmitContact(values)
    \/ ContactInsertFails
    \/ ContactInsertReturns
    \/ CreatedLogInserted
    \/ \E thrown \in BOOLEAN : CreatedLogFails(thrown)
    \/ \E contact \in contacts, values \in EditContactValues :
           SubmitContactEdit(contact, values)
    \/ ContactUpdateReturns
    \/ \E c \in contacts, newStatus \in StatusOptions :
           StatusChange(c.id, newStatus)
    \/ StatusUpdateReturns
    \/ UpdateFails

SpecContacts == InitContacts /\ [][NextContacts]_vars

\* what the forms have handed to triggerWebhook so far
Dispatched(eventType, userId, data) ==
    {j \in 1..Len(dispatches) :
        /\ dispatches[j].event = eventType
        /\ dispatches[j].userId = userId
        /\ dispatches[j].data = data}

\* C14: every contact in the table was handed to the dispatcher with event
\* contact.created by the user who created it, and once an edit or a status
\* change has succeeded the dispatcher has been called with contact.updated.
C14_ContactMutationsDispatched ==
    /\ \A c \in contacts :
           \E j \in 1..Len(dispatches) :
               /\ dispatches[j].event = "contact.created"
               /\ dispatches[j].userId = c.user_id
    /\ (ui.form \in {"editContact", "statusChange"} /\ ui.inserted) =>
           \E j \in 1..Len(dispatches) : dispatches[j].event = "contact.updated"

\* C15: every row of activity_logs was handed to the dispatcher exactly once,
\* with event activity.created, the id of the user who wrote it, and the row
\* as data.
C15_ActivityInsertDispatchedOnce ==
    \A a \in activity_logs :
        Cardinality(Dispatched("activity.created", a.user_id, a)) = 1

\* the part of C15 that AddActivityLogForm keeps: every dispatch is for a
\* stored row, with activity.created and the id of its user, and no row is
\* dispatched twice
C15_AddActivityLogFormPart ==
    /\ \A j \in 1..Len(dispatches) :
           /\ dispatches[j].data \in activity_logs
           /\ dispatches[j].event = "activity.created"
           /\ dispatches[j].userId = dispatches[j].data.user_id
    /\ \A a \in activity_logs :
           Cardinality(Dispatched("activity.created", a.user_id, a)) <= 1

\* C20: every contact in the table has a non-empty name and a valid, hence
\* non-empty, e-mail address, and no insert is ever under way for values
\* with an empty name or an empty or invalid address.
C20_ContactNameAndEmailRequired ==
    /\ \A c \in contacts :
           /\ c.name # ""
           /\ c.email # <<>>
           /\ ValidEmail(c.email)
    /\ (ui.form = "createContact" /\ ui.pc = "insertingContact") =>
           /\ ui.values.name # ""
           /\ ValidEmail(ui.values.email)

\* C20 witness: a contact has been inserted and a later submission of the
\* create form has been rejected by the schema.
C20_Witness ==
    /\ contacts # {}
    /\ ui.form = "createContact"
    /\ ui.pc = "invalid"

-----------------------------------------------------------------------------
(* AddWebhookForm, EditWebhookForm *)

\* rows the webhooks table may hold in a run
MaxWebhooks == 2

\* what handleSubmit can be given as event_trigger: nothing selected, an
\* option of the select, or any other string put into the form state
SubmittedTriggers == {"", "contact.created", "activity.created", "contact.deleted"}

SubmittedUrls == {<<>>, RelPath, AbsPath, <<"/", "abc">>}

WebhookFormValues ==
    [event_trigger : SubmittedTriggers, url : SubmittedUrls, description : {"", "d"}]

WebhookEditFormValues == [url : SubmittedUrls, description : {"", "d"}]

\* z.string().min(1).startsWith('/')
PathValid(url) == Len(url) >= 1 /\ StartsWith(url, <<"/">>)

\* webhookFormSchema
WebhookFormValid(values) == values.event_trigger # "" /\ PathValid(values.url)

AcceptsAnyEdit(values) == TRUE

\* webhookEditSchema
WebhookEditValid(values) == PathValid(values.url)

NextWebhookId ==
    IF registry = {} THEN 1
    ELSE (CHOOSE i \in {r.id : r \in registry} : \A r \in registry : r.id <= i) + 1

\* the row AddWebhookForm asks the store to insert
NewWebhook(values) ==
    [id |-> NextWebhookId, user_id |-> user,
     event_trigger |-> values.event_trigger, url |-> values.url,
     description |-> OrNull(values.description)]

\* the store keeps (user_id, event_trigger) unique: an insert of a pair it
\* already holds ends in error code 23505; any insert may fail otherwise
InsertOutcomes(row) ==
    IF \E r \in registry :
           r.user_id = row.user_id /\ r.event_trigger = row.event_trigger
    THEN {"23505", "other"}
    ELSE {"ok", "other"}

IgnoresInsertError(form, code) ==
    [form EXCEPT !.pc = "done", !.inserted = TRUE, !.toast = "success",
                 !.reset = TRUE, !.onSuccess = TRUE, !.loading = FALSE,
                 !.values = <<>>]

\* AddWebhookForm lines 82-98: error.code === '23505' is rethrown as
\* 'Webhook already exists for event: ...'; catch toasts the message
AfterInsertError(form, code) ==
    [form EXCEPT !.pc = "done", !.loading = FALSE, !.values = <<>>,
                 !.toast = IF code = "23505" THEN "Webhook already exists for event"
                           ELSE "error"]

\* toast.success(...), form.reset(), onSuccess(), finally setLoading(false)
AfterWebhookSaved(form) ==
    [form EXCEPT !.pc = "done", !.inserted = TRUE, !.toast = "success",
                 !.reset = TRUE, !.onSuccess = TRUE, !.loading = FALSE,
                 !.values = <<>>]

SubmitWebhookUnguarded(values) ==
    /\ ~ui.loading
    /\ ui' = IF ~WebhookFormValid(values)
             THEN [UiIdle EXCEPT !.form = "addWebhook", !.pc = "invalid"]
             ELSE [UiIdle EXCEPT !.form = "addWebhook", !.pc = "inserting",
                                 !.loading = TRUE, !.values = values]
    /\ UNCHANGED <<registry, call, attempts, requests, queries>>
    /\ UNCHANGED <<user, contacts, activity_logs, dispatches>>
    /\ UNCHANGED pageVars

\* form.handleSubmit(onSubmit) and onSubmit up to the insert
SubmitWebhook(values) ==
    /\ ~ui.loading
    /\ ui' = IF ~WebhookFormValid(values)
             THEN [UiIdle EXCEPT !.form = "addWebhook", !.pc = "invalid"]
             ELSE IF user = NoSession
             THEN [UiIdle EXCEPT !.form = "addWebhook", !.pc = "done",
                                 !.toast = "error"]
             ELSE [UiIdle EXCEPT !.form = "addWebhook", !.pc = "inserting",
                                 !.loading = TRUE, !.values = values]
    /\ UNCHANGED <<registry, call, attempts, requests, queries>>
    /\ UNCHANGED <<user, contacts, activity_logs, dispatches>>
    /\ UNCHANGED pageVars

\* lines 70-98: the insert resolves
WebhookInsertResolves(outcome) ==
    /\ ui.form = "addWebhook"
    /\ ui.pc = "inserting"
    /\ outcome \in InsertOutcomes(NewWebhook(ui.values))
    /\ IF outcome = "ok"
       THEN /\ Cardinality(registry) < MaxWebhooks
            /\ registry' = registry \cup {NewWebhook(ui.values)}
            /\ ui' = AfterWebhookSaved(ui)
       ELSE /\ registry' = registry
            /\ ui' = AfterInsertError(ui, outcome)
    /\ UNCHANGED <<call, attempts, requests, queries>>
    /\ UNCHANGED <<user, contacts, activity_logs, dispatches>>
    /\ UNCHANGED pageVars

RetriggeredWebhook(webhook, values) ==
    [webhook EXCEPT !.url = values.url, !.description = values.description,
                    !.event_trigger = "contact.updated"]

\* .update({url: values.url, description: values.description || null})
UpdatedWebhook(webhook, values) ==
    [webhook EXCEPT !.url = values.url, !.description = values.description]

\* EditWebhookForm: form.handleSubmit(onSubmit) and onSubmit up to the
\* update; the form has no user check
SubmitWebhookEdit(webhook, values) ==
    /\ ~ui.loading
    /\ webhook \in registry
    /\ ui' = IF ~WebhookEditValid(values)
             THEN [UiIdle EXCEPT !.form = "editWebhook", !.pc = "invalid"]
             ELSE [UiIdle EXCEPT !.form = "editWebhook", !.pc = "updating",
                                 !.loading = TRUE,
                                 !.values = [id |-> webhook.id, url |-> values.url,
                                             description |-> OrNull(values.description)]]
    /\ UNCHANGED <<registry, call, attempts, requests, queries>>
    /\ UNCHANGED <<user, contacts, activity_logs, dispatches>>
    /\ UNCHANGED pageVars

\* lines 141-160: update(...).eq('id', webhook.id) resolves
WebhookUpdateResolves(ok) ==
    /\ ui.form = "editWebhook"
    /\ ui.pc = "updating"
    /\ IF ok
       THEN /\ registry' = { IF r.id = ui.values.id
                             THEN UpdatedWebhook(r, ui.values)
                             ELSE r : r \in registry }
            /\ ui' = AfterWebhookSaved(ui)
       ELSE /\ registry' = registry
            /\ ui' = AfterError(ui)
    /\ UNCHANGED <<call, attempts, requests, queries>>
    /\ UNCHANGED <<user, contacts, activity_logs, dispatches>>
    /\ UNCHANGED pageVars

\* a session in front of a webhooks table that is empty or holds a webhook
\* another user has added through the form
InitWebhooks ==
    /\ PagesIdle
    /\ user \in {NoSession, "u1", "u2"}
    /\ ui = UiIdle
    /\ contacts = {}
    /\ activity_logs = {}
    /\ dispatches = <<>>
    /\ registry \in { {},
                      {[id |-> 1, user_id |-> "u2",
                        event_trigger |-> "contact.created", url |-> AbsPath,
                        description |-> "<null>"]} }
    /\ call = [pc |-> "idle", eventType |-> "", userId |-> "", data |-> <<>>,
               qres |-> "none", webhooks |-> <<>>]
    /\ attempts = NoAttempts
    /\ requests = <<>>
    /\ queries = 0

NextWebhooks ==
    \/ \E values \in WebhookFormValues : SubmitWebhook(values)
    \/ \E outcome \in {"ok", "23505", "other"} : WebhookInsertResolves(outcome)
    \/ \E webhook \in registry, values \in WebhookEditFormValues :
           SubmitWebhookEdit(webhook, values)
    \/ \E ok \in BOOLEAN : WebhookUpdateResolves(ok)

SpecWebhooks == InitWebhooks /\ [][NextWebhooks]_vars

\* a pair of the registry is held by one row only
UniquePairs(rows) ==
    \A r1, r2 \in rows :
        (r1.user_id = r2.user_id /\ r1.event_trigger = r2.event_trigger) => r1 = r2

\* the insert under way is for a pair the registry already holds
Conflicting ==
    /\ ui.form = "addWebhook"
    /\ ui.pc = "inserting"
    /\ \E r \in registry :
           r.user_id = user /\ r.event_trigger = ui.values.event_trigger

\* C16: after every step the registry holds at most one webhook per
\* (user_id, event_trigger), and when a submission for a pair that already
\* exists resolves, the registry is unchanged, the form toasts an error (the
\* uniqueness conflict, unless the insert failed for another reason) and
\* onSuccess is not called.
C16_OneWebhookPerUserAndTrigger ==
    [][/\ UniquePairs(registry')
       /\ (Conflicting /\ ui'.pc = "done") =>
              /\ registry' = registry
              /\ ui'.toast \in {"Webhook already exists for event", "error"}
              /\ ~ui'.onSuccess]_vars

\* C16 witness: the form has toasted the uniqueness conflict and the
\* registry holds the user's row.
C16_Witness ==
    /\ ui.form = "addWebhook"
    /\ ui.toast = "Webhook already exists for event"
    /\ ~ui.onSuccess
    /\ \E r \in registry : r.user_id = user

\* C17: every url in the webhooks table is non-empty and starts with "/",
\* and no insert or update is ever under way for a url that is empty or
\* does not start with "/".
C17_StoredPathStartsWithSlash ==
    /\ \A r \in registry : r.url # <<>> /\ Head(r.url) = "/"
    /\ (ui.form \in {"addWebhook", "editWebhook"}
            /\ ui.pc \in {"inserting", "updating"}) =>
           (ui.values.url # <<>> /\ Head(ui.values.url) = "/")

\* C17 witness: a row has been added and edited, and the last submission of
\* the edit form has been rejected by the schema.
C17_Witness ==
    /\ \E r \in registry : r.user_id = user /\ r.url = <<"/", "abc">>
    /\ ui.form = "editWebhook"
    /\ ui.pc = "invalid"

\* C18: a step of EditWebhookForm keeps the rows of the registry, the
\* event_trigger and user_id of each, and every field of the rows other
\* than the edited one; the edited row gets the submitted url and description.
C18_EditKeepsTriggerAndOwner ==
    [][(ui.form = "editWebhook" /\ ui.pc = "updating") =>
           /\ {r.id : r \in registry'} = {r.id : r \in registry}
           /\ Cardinality(registry') = Cardinality(registry)
           /\ \A r \in registry : \A n \in registry' :
                  n.id = r.id =>
                      /\ n.event_trigger = r.event_trigger
                      /\ n.user_id = r.user_id
                      /\ r.id # ui.values.id => n = r
                      /\ (r.id = ui.values.id /\ n # r) =>
                             /\ n.url = ui.values.url
                             /\ n.description = ui.values.description]_vars

\* C18 witness: an edit has succeeded on a registry of two rows, and the
\* edited row holds the new url and description.
C18_Witness ==
    /\ ui.form = "editWebhook"
    /\ ui.toast = "success"
    /\ Cardinality(registry) >= 2
    /\ \E r \in registry : r.url = <<"/", "abc">> /\ r.description = "d"

C21_StatusInEnumeratedSet ==
    \A c \in contacts :
        c.status \in {"Lead", "Prospect", "Customer", "Lost", "<null>"}

-----------------------------------------------------------------------------
(* ContactsPage: fetchContacts *)

\* fetchContacts calls followed in a run
MaxFetches == 3

\* the contacts table the page is mounted on
StoredContacts ==
    { [id |-> "1", user_id |-> "u1", name |-> "Ann",
       email |-> <<"ann", "@", "x", ".", "org">>, status |-> "Lead"],
      [id |-> "2", user_id |-> "u1", name |-> "Bob",
       email |-> <<"bob", "@", "x", ".", "org">>, status |-> "Prospect"],
      [id |-> "3", user_id |-> "u2", name |-> "Ann",
       email |-> <<"a", ".", "b", "@", "x", ".", "org">>, status |-> "Lead"] }

SearchTerms == {"", "ann"}

StatusFilters == {"all", "Lead"}

\* lower case of the words the stored contacts hold
LowerWord(word) ==
    CASE word = "Ann" -> "ann"
      [] word = "Bob" -> "bob"
      [] OTHER -> word

\* name.ilike.%term% or email.ilike.%term%, a term being a whole word
Ilike(term, contact) ==
    \/ LowerWord(contact.name) = term
    \/ \E i \in 1..Len(contact.email) : LowerWord(contact.email[i]) = term

\* the rows the query of fetchContacts selects (their order left out)
QueryContacts(rows, currentSearchTerm, currentStatus) ==
    {c \in rows :
        /\ currentSearchTerm # "" => Ilike(currentSearchTerm, c)
        /\ currentStatus # "all" => c.status = currentStatus
        /\ user # NoSession => c.user_id = user}

\* the request a call of fetchContacts puts in flight
NewFetch(currentSearchTerm, currentStatus) ==
    [n |-> net.issued + 1, table |-> "contacts", term |-> currentSearchTerm,
     status |-> currentStatus]

\* setSearchTerm(e.target.value), and the effect on [searchTerm] that calls
\* fetchContacts up to its await
SetSearchTerm(term) ==
    /\ term # page.searchTerm
    /\ net.issued < MaxFetches
    /\ page' = [page EXCEPT !.searchTerm = term, !.loading = TRUE,
                            !.error = FALSE]
    /\ net' = [net EXCEPT !.fetches = @ \cup {NewFetch(term, page.selectedStatus)},
                          !.issued = @ + 1]
    /\ UNCHANGED <<registry, call, attempts, requests, queries>>
    /\ UNCHANGED formVars

\* setSelectedStatus(value), and the effect on [selectedStatus]
SetSelectedStatus(status) ==
    /\ status # page.selectedStatus
    /\ net.issued < MaxFetches
    /\ page' = [page EXCEPT !.selectedStatus = status, !.loading = TRUE,
                            !.error = FALSE]
    /\ net' = [net EXCEPT !.fetches = @ \cup {NewFetch(page.searchTerm, status)},
                          !.issued = @ + 1]
    /\ UNCHANGED <<registry, call, attempts, requests, queries>>
    /\ UNCHANGED formVars

\* setContacts(data || [])
ShownAfterFetch(shown, fetch, data) == data

\* lines 101-112: the query of a fetchContacts call resolves
FetchContactsResolves(fetch, ok) ==
    /\ fetch \in net.fetches
    /\ fetch.table = "contacts"
    /\ page' = IF ok
               THEN [page EXCEPT !.loading = FALSE,
                        !.contacts = ShownAfterFetch(page.contacts, fetch,
                            QueryContacts(contacts, fetch.term, fetch.status))]
               ELSE [page EXCEPT !.loading = FALSE, !.error = TRUE]
    /\ net' = [net EXCEPT !.fetches = @ \ {fetch}]
    /\ UNCHANGED <<registry, call, attempts, requests, queries>>
    /\ UNCHANGED formVars

\* ContactsPage mounted by a signed-in user: the effect has called
\* fetchContacts("", "all")
InitFetch ==
    /\ user = "u1"
    /\ ui = UiIdle
    /\ contacts = StoredContacts
    /\ activity_logs = {}
    /\ dispatches = <<>>
    /\ registry = {}
    /\ call = [pc |-> "idle", eventType |-> "", userId |-> "", data |-> <<>>,
               qres |-> "none", webhooks |-> <<>>]
    /\ attempts = NoAttempts
    /\ requests = <<>>
    /\ queries = 0
    /\ page = [PageIdle EXCEPT !.loading = TRUE]
    /\ net = [NetIdle EXCEPT !.issued = 1,
                             !.fetches = {[n |-> 1, table |-> "contacts",
                                           term |-> "", status |-> "all"]}]

NextFetch ==
    \/ \E term \in SearchTerms : SetSearchTerm(term)
    \/ \E status \in StatusFilters : SetSelectedStatus(status)
    \/ \E fetch \in net.fetches, ok \in BOOLEAN : FetchContactsResolves(fetch, ok)

SpecFetch == InitFetch /\ [][NextFetch]_vars

\* C26: once no fetchContacts request is outstanding and the last one to
\* settle succeeded, the displayed list is the result of the query for the
\* current searchTerm and selectedStatus.
C26_NewestResultShown ==
    (net.fetches = {} /\ ~page.error) =>
        page.contacts = QueryContacts(contacts, page.searchTerm, page.selectedStatus)

-----------------------------------------------------------------------------
(* ContactsPage: handleStatusChange with updates of several rows in flight *)

\* the row select of a contact is disabled while updatingStatusId is its id
SelectDisabled(contactId) == page.updatingStatusId = contactId

\* lines 166-172: setUpdatingStatusId(contactId) and the update request
HandleStatusChange(contactId, newStatus) ==
    /\ \E c \in page.contacts : c.id = contactId
    /\ ~SelectDisabled(contactId)
    /\ page' = [page EXCEPT !.updatingStatusId = contactId]
    /\ net' = [net EXCEPT !.updates = @ \cup {[id |-> contactId, status |-> newStatus]}]
    /\ UNCHANGED <<registry, call, attempts, requests, queries>>
    /\ UNCHANGED formVars

\* lines 168-194: the update resolves.  On success the list is refetched
\* when a status filter is set and patched in place otherwise; finally
\* setUpdatingStatusId(null)
StatusChangeSettles(update, ok) ==
    /\ update \in net.updates
    /\ IF ~ok
       THEN /\ contacts' = contacts
            /\ page' = [page EXCEPT !.updatingStatusId = None]
            /\ net' = [net EXCEPT !.updates = @ \ {update}]
       ELSE /\ contacts' = { IF c.id = update.id
                             THEN [c EXCEPT !.status = update.status]
                             ELSE c : c \in contacts }
            /\ IF page.selectedStatus # "all"
               THEN /\ net.issued < MaxFetches
                    /\ page' = [page EXCEPT !.updatingStatusId = None,
                                            !.loading = TRUE, !.error = FALSE]
                    /\ net' = [net EXCEPT
                           !.updates = @ \ {update},
                           !.fetches = @ \cup {NewFetch(page.searchTerm,
                                                        page.selectedStatus)},
                           !.issued = @ + 1]
               ELSE /\ page' = [page EXCEPT
                           !.updatingStatusId = None,
                           !.contacts = { IF c.id = update.id
                                          THEN [c EXCEPT !.status = update.status]
                                          ELSE c : c \in page.contacts }]
                    /\ net' = [net EXCEPT !.updates = @ \ {update}]
    /\ UNCHANGED <<registry, call, attempts, requests, queries>>
    /\ UNCHANGED <<user, ui, activity_logs, dispatches>>

\* ContactsPage after its first fetch, with or without a status filter
InitStatus ==
    /\ user = "u1"
    /\ ui = UiIdle
    /\ contacts = StoredContacts
    /\ activity_logs = {}
    /\ dispatches = <<>>
    /\ registry = {}
    /\ call = [pc |-> "idle", eventType |-> "", userId |-> "", data |-> <<>>,
               qres |-> "none", webhooks |-> <<>>]
    /\ attempts = NoAttempts
    /\ requests = <<>>
    /\ queries = 0
    /\ \E status \in StatusFilters :
           page = [PageIdle EXCEPT
                      !.selectedStatus = status,
                      !.contacts = QueryContacts(StoredContacts, "", status)]
    /\ net = [NetIdle EXCEPT !.issued = 1]

NextStatus ==
    \/ \E c \in page.contacts, newStatus \in StatusOptions :
           HandleStatusChange(c.id, newStatus)
    \/ \E update \in net.updates, ok \in BOOLEAN : StatusChangeSettles(update, ok)
    \/ \E fetch \in net.fetches, ok \in BOOLEAN : FetchContactsResolves(fetch, ok)

SpecStatus == InitStatus /\ [][NextStatus]_vars

\* C27: the select of every contact with a status update in flight is
\* disabled, and updatingStatusId is null when no update is in flight.
C27_SelectorDisabledWhileUpdating ==
    /\ \A update \in net.updates : SelectDisabled(update.id)
    /\ net.updates = {} => page.updatingStatusId = None

-----------------------------------------------------------------------------
(* ContactsPage and WebhooksPage: delete after confirmation.  The buttons   *)
(* of the AlertDialog are reachable while it is open only; a click on       *)
(* Cancel or on the action closes it, and so does Escape.                   *)

\* delete requests followed in a run
MaxDeletes == 2

FirstContact(contactId) == "1"

\* setDeletingContactId(contactId)
RequestedContact(contactId) == contactId

\* if (!deletingContactId) return
NoPendingDelete(deletingContactId) == deletingContactId = None

\* ContactsPage lines 136-139: Delete in the menu of a row
HandleDelete(contactId) ==
    /\ ~page.isDeleteDialogOpen
    /\ \E c \in page.contacts : c.id = contactId
    /\ page' = [page EXCEPT !.deletingContactId = RequestedContact(contactId),
                            !.isDeleteDialogOpen = TRUE]
    /\ net' = [net EXCEPT !.asked.contacts = contactId]
    /\ UNCHANGED <<registry, call, attempts, requests, queries>>
    /\ UNCHANGED formVars

\* line 354: Cancel sets deletingContactId to null; the dialog closes
CancelDelete ==
    /\ page.isDeleteDialogOpen
    /\ ~page.isDeleting
    /\ page' = [page EXCEPT !.deletingContactId = None,
                            !.isDeleteDialogOpen = FALSE]
    /\ net' = [net EXCEPT !.asked.contacts = None]
    /\ UNCHANGED <<registry, call, attempts, requests, queries>>
    /\ UNCHANGED formVars

\* line 345: onOpenChange(false) on Escape; deletingContactId is kept
DismissDeleteDialog ==
    /\ page.isDeleteDialogOpen
    /\ page' = [page EXCEPT !.isDeleteDialogOpen = FALSE]
    /\ net' = [net EXCEPT !.asked.contacts = None]
    /\ UNCHANGED <<registry, call, attempts, requests, queries>>
    /\ UNCHANGED formVars

\* lines 141-149: the action button, disabled while isDeleting
ConfirmDelete ==
    /\ page.isDeleteDialogOpen
    /\ ~page.isDeleting
    /\ Len(net.sent) < MaxDeletes
    /\ IF NoPendingDelete(page.deletingContactId)
       THEN /\ page' = [page EXCEPT !.isDeleteDialogOpen = FALSE]
            /\ net' = net
       ELSE LET request == [table |-> "contacts", id |-> page.deletingContactId]
            IN  /\ page' = [page EXCEPT !.isDeleteDialogOpen = FALSE,
                                        !.isDeleting = TRUE]
                /\ net' = [net EXCEPT !.deletes = @ \cup {request},
                                      !.sent = Append(@, request)]
    /\ UNCHANGED <<registry, call, attempts, requests, queries>>
    /\ UNCHANGED formVars

\* lines 149-162: the delete resolves; on success the list is refetched
ContactDeleteResolves(request, ok) ==
    /\ request \in net.deletes
    /\ request.table = "contacts"
    /\ IF ok
       THEN /\ net.issued < MaxFetches
            /\ contacts' = {c \in contacts : c.id # request.id}
            /\ page' = [page EXCEPT !.deletingContactId = None,
                                    !.isDeleteDialogOpen = FALSE,
                                    !.isDeleting = FALSE,
                                    !.loading = TRUE, !.error = FALSE]
            /\ net' = [net EXCEPT
                   !.deletes = @ \ {request},
                   !.asked.contacts = None,
                   !.fetches = @ \cup {NewFetch(page.searchTerm, page.selectedStatus)},
                   !.issued = @ + 1]
       ELSE /\ contacts' = contacts
            /\ page' = [page EXCEPT !.isDeleting = FALSE]
            /\ net' = [net EXCEPT !.deletes = @ \ {request}]
    /\ UNCHANGED <<registry, call, attempts, requests, queries>>
    /\ UNCHANGED <<user, ui, activity_logs, dispatches>>

\* WebhooksPage lines 88-90: Delete in the menu of a row
RequestDeleteWebhook(webhook) ==
    /\ page.webhookToDelete = <<>>
    /\ webhook \in page.webhooks
    /\ page' = [page EXCEPT !.webhookToDelete = <<webhook>>]
    /\ net' = [net EXCEPT !.asked.webhooks = <<webhook.id>>]
    /\ UNCHANGED <<registry, call, attempts, requests, queries>>
    /\ UNCHANGED formVars

\* lines 194, 205: Cancel, or Escape through onOpenChange(false)
CancelDeleteWebhook ==
    /\ page.webhookToDelete # <<>>
    /\ page' = [page EXCEPT !.webhookToDelete = <<>>]
    /\ net' = [net EXCEPT !.asked.webhooks = <<>>]
    /\ UNCHANGED <<registry, call, attempts, requests, queries>>
    /\ UNCHANGED formVars

\* lines 92-99: the action button, disabled while loading; the closing
\* dialog sets webhookToDelete to null, the call keeps the webhook it read.
\* Request ids are written as strings.
ConfirmDeleteWebhook ==
    /\ page.webhookToDelete # <<>>
    /\ ~page.webhooksLoading
    /\ Len(net.sent) < MaxDeletes
    /\ LET request == [table |-> "webhooks",
                       id |-> ToString(page.webhookToDelete[1].id)]
       IN  /\ page' = [page EXCEPT !.webhookToDelete = <<>>,
                                   !.webhooksLoading = TRUE]
           /\ net' = [net EXCEPT !.deletes = @ \cup {request},
                                 !.sent = Append(@, request)]
    /\ UNCHANGED <<registry, call, attempts, requests, queries>>
    /\ UNCHANGED formVars

\* lines 101-112: the delete resolves; on success fetchWebhooks() is called
\* and then finally sets loading to false
WebhookDeleteResolves(request, ok) ==
    /\ request \in net.deletes
    /\ request.table = "webhooks"
    /\ IF ok
       THEN /\ net.issued < MaxFetches
            /\ registry' = {r \in registry : ToString(r.id) # request.id}
            /\ page' = [page EXCEPT !.webhookToDelete = <<>>,
                                    !.webhooksLoading = FALSE]
            /\ net' = [net EXCEPT
                   !.deletes = @ \ {request},
                   !.asked.webhooks = <<>>,
                   !.fetches = @ \cup {[n |-> net.issued + 1, table |-> "webhooks",
                                        term |-> "", status |-> "all"]},
                   !.issued = @ + 1]
       ELSE /\ registry' = registry
            /\ page' = [page EXCEPT !.webhooksLoading = FALSE]
            /\ net' = [net EXCEPT !.deletes = @ \ {request}]
    /\ UNCHANGED <<call, attempts, requests, queries>>
    /\ UNCHANGED formVars

\* WebhooksPage lines 49-66: the query of fetchWebhooks resolves
FetchWebhooksResolves(fetch, ok) ==
    /\ fetch \in net.fetches
    /\ fetch.table = "webhooks"
    /\ page' = IF ok
               THEN [page EXCEPT !.webhooks = registry, !.webhooksLoading = FALSE]
               ELSE [page EXCEPT !.webhooksLoading = FALSE]
    /\ net' = [net EXCEPT !.fetches = @ \ {fetch}]
    /\ UNCHANGED <<registry, call, attempts, requests, queries>>
    /\ UNCHANGED formVars

\* both pages after their first fetch
InitDelete ==
    /\ user = "u1"
    /\ ui = UiIdle
    /\ contacts = StoredContacts
    /\ activity_logs = {}
    /\ dispatches = <<>>
    /\ registry = {r \in RowPool : r.user_id = "u1" /\ r.event_trigger # "activity.created"}
    /\ call = [pc |-> "idle", eventType |-> "", userId |-> "", data |-> <<>>,
               qres |-> "none", webhooks |-> <<>>]
    /\ attempts = NoAttempts
    /\ requests = <<>>
    /\ queries = 0
    /\ page = [PageIdle EXCEPT
                  !.contacts = QueryContacts(StoredContacts, "", "all"),
                  !.webhooks = registry]
    /\ net = [NetIdle EXCEPT !.issued = 1]

NextDelete ==
    \/ \E c \in page.contacts : HandleDelete(c.id)
    \/ CancelDelete
    \/ DismissDeleteDialog
    \/ ConfirmDelete
    \/ \E request \in net.deletes, ok \in BOOLEAN : ContactDeleteResolves(request, ok)
    \/ \E webhook \in page.webhooks : RequestDeleteWebhook(webhook)
    \/ CancelDeleteWebhook
    \/ ConfirmDeleteWebhook
    \/ \E request \in net.deletes, ok \in BOOLEAN : WebhookDeleteResolves(request, ok)
    \/ \E fetch \in net.fetches, ok \in BOOLEAN : FetchContactsResolves(fetch, ok)
    \/ \E fetch \in net.fetches, ok \in BOOLEAN : FetchWebhooksResolves(fetch, ok)

SpecDelete == InitDelete /\ [][NextDelete]_vars

\* C22: a step that sends a delete request sends one, for the record whose
\* deletion was last asked for on that page and not cancelled since; and a
\* row leaves a table only when a delete request for it has been sent.
C22_DeleteOnlyAfterConfirmation ==
    [][/\ net'.sent # net.sent =>
              /\ Len(net'.sent) = Len(net.sent) + 1
              /\ SubSeq(net'.sent, 1, Len(net.sent)) = net.sent
              /\ LET request == net'.sent[Len(net'.sent)]
                 IN  IF request.table = "contacts"
                     THEN /\ net.asked.contacts # None
                          /\ request.id = net.asked.contacts
                     ELSE /\ net.asked.webhooks # <<>>
                          /\ request.id = ToString(net.asked.webhooks[1])
       /\ \A c \in contacts \ contacts' :
              \E j \in 1..Len(net.sent) :
                  net.sent[j].table = "contacts" /\ net.sent[j].id = c.id
       /\ \A r \in registry \ registry' :
              \E j \in 1..Len(net.sent) :
                  /\ net.sent[j].table = "webhooks"
                  /\ net.sent[j].id = ToString(r.id)]_vars

\* C22 witness: two delete requests were sent and have resolved; a contact
\* and a webhook have left their tables.
C22_Witness ==
    /\ Len(net.sent) = 2
    /\ Cardinality(contacts) < Cardinality(StoredContacts)
    /\ Cardinality(registry) < 2
    /\ net.deletes = {}

-----------------------------------------------------------------------------
(* Progress of a triggerWebhook call *)

\* The steps that are taken once they can be: the store answers the query,
\* the body of a received response is read, and the join runs when every
\* attempt has settled.  Nothing makes a pending fetch settle: the call
\* passes no signal to fetch and sets no timer.
Fairness ==
    /\ WF_vars(QueryFails \/ QueryNoData \/ (\E now \in Times : QueryReturns(now)))
    /\ WF_vars(\E w \in DOMAIN attempts : BodySettles(w))
    /\ WF_vars(Join)

SpecFair == Spec /\ Fairness

\* C23: every triggerWebhook call that has started eventually returns.
C23_EveryCallReturns ==
    (call.pc \in {"querying", "joining"}) ~> (call.pc \in {"resolved", "rejected"})

\* C24: in every state of a call, each attempt that was not skipped has had
\* its request issued, whatever state the other attempts are in: no request
\* waits for the response of another.
C24_RequestsIssuedTogether ==
    \A a \in DOMAIN attempts :
        attempts[a] # "skipped" => Cardinality(RequestsFor(a)) = 1

\* C24 witness: the requests of two webhooks are out and neither has been
\* answered.
C24_Witness ==
    /\ call.pc = "joining"
    /\ \E a, b \in DOMAIN attempts :
           /\ a # b
           /\ attempts[a] = "fetching" /\ RequestsFor(a) # {}
           /\ attempts[b] = "fetching" /\ RequestsFor(b) # {}

\* the activity form's insert has just resolved
ActivityInsertSettles ==
    ui.form = "activity" /\ ui.pc = "inserting" /\ ui'.pc = "done"

\* C25 as stated: after the insert returned an error or no record the form
\* shows an error toast, and has neither called onSuccess nor been reset.
C25_ErrorOrNoRecordIsAnError ==
    (ui.form = "activity" /\ ui.result \in {"error", "nothing"}) =>
        /\ ui.toast = "error"
        /\ ~ui.onSuccess
        /\ ~ui.reset

\* C25 amended: triggerWebhook is called only in the step in which the insert
\* returns the record, with that record.  When the insert returns an error,
\* no call is made, onSuccess is not called, the form is not reset and an
\* error toast is shown.  When it returns neither an error nor a record, no
\* call is made either, but the success toast, the reset and onSuccess
\* happen.
C25_DispatchOnlyAfterInsert ==
    [][/\ (dispatches' # dispatches
               \/ (call.pc # "querying" /\ call'.pc = "querying")) =>
              /\ ActivityInsertSettles
              /\ ui'.result = "record"
              /\ dispatches' = Append(dispatches,
                     [event |-> "activity.created", userId |-> user,
                      data |-> call'.data])
              /\ call'.data \in activity_logs' \ activity_logs
       /\ (ActivityInsertSettles /\ ui'.result = "error") =>
              /\ ui'.toast = "error"
              /\ ~ui'.onSuccess
              /\ ~ui'.reset
              /\ ~ui'.loading
              /\ activity_logs' = activity_logs
       /\ (ActivityInsertSettles /\ ui'.result = "nothing") =>
              /\ ui'.toast = "success"
              /\ ui'.onSuccess
              /\ ui'.reset]_vars

\* C25 witness: an insert has failed with the error toast after an earlier
\* one was dispatched; nothing was dispatched for the failed one.
C25_Witness ==
    /\ ui.form = "activity"
    /\ ui.result = "error"
    /\ ui.toast = "error"
    /\ Len(dispatches) = 1
    /\ Cardinality(activity_logs) = 1

\* the insert of the automatic activity log has just settled
CreatedLogSettles ==
    ui.form = "createContact" /\ ui.pc = "loggingActivity" /\ ui'.pc = "done"

\* C28: in CreateContactForm the automatic log is written only while the
\* form waits for the log insert, which it does only after the contact was
\* stored; the row written has action Created and the id of that contact.
\* However the log insert settles, stored or failed with an error result or
\* an exception, the contact stays in the table, the form is reset, onSuccess
\* is called and loading ends.
C28_CreatedLogContained ==
    [][/\ ui'.pc = "loggingActivity" =>
              /\ ui'.inserted
              /\ ui'.values \in contacts'
       /\ activity_logs' # activity_logs =>
              /\ CreatedLogSettles
              /\ \E log \in activity_logs' \ activity_logs :
                     /\ activity_logs' = activity_logs \cup {log}
                     /\ log.contact_id = ui.values.id
                     /\ log.action = "Created"
                     /\ log.user_id = ui.values.user_id
       /\ (ui.form = "createContact" /\ ui.pc = "loggingActivity"
              /\ ui' # ui) =>
              /\ CreatedLogSettles
              /\ contacts' = contacts
              /\ ui.values \in contacts'
              /\ ui'.reset
              /\ ui'.onSuccess
              /\ ~ui'.loading]_vars

\* C28 witness: the log insert failed with an error result; the contact is
\* stored without a log, the warning was shown and the form was closed.
C28_Witness ==
    /\ ui.form = "createContact"
    /\ ui.pc = "done"
    /\ ui.toast = "warning"
    /\ ui.onSuccess
    /\ Cardinality(contacts) = 1
    /\ activity_logs = {}

\* C29: for every stored url that the schema of AddWebhookForm and
\* EditWebhookForm accepts, the dispatcher takes neither the skip branch nor
\* the full-URL extraction nor the slash-prepending: the row gets exactly one
\* request, to "/api/n8n" followed by the stored url itself.
C29_AcceptedPathPostedUnchanged ==
    call.qres = "rows" =>
        \A w \in Matched :
            PathValid(w.url) =>
                /\ attempts[w.id] # "skipped"
                /\ ~LooksLikeFullUrl(w.url)
                /\ ResolvePath(w.url) = [skip |-> FALSE, path |-> w.url]
                /\ Cardinality(RequestsFor(w.id)) = 1
                /\ \A j \in RequestsFor(w.id) :
                       requests[j].url = <<"/", "api", "/", "n8n">> \o w.url

\* C29 witness: the request for a stored url of more than one segment that
\* the schema accepts has been sent.
C29_Witness ==
    /\ call.qres = "rows"
    /\ \E w \in Matched :
           /\ PathValid(w.url)
           /\ Len(w.url) > 2
           /\ RequestsFor(w.id) # {}

----------------------------------------------------------------------------
(* The three forms that create rows, with and without a session *)

\* nobody or u1 signed in, in front of empty tables
InitForms ==
    /\ PagesIdle
    /\ user \in {NoSession, "u1"}
    /\ ui = UiIdle
    /\ contacts = {}
    /\ activity_logs = {}
    /\ dispatches = <<>>
    /\ registry = {}
    /\ call = [pc |-> "idle", eventType |-> "", userId |-> "", data |-> <<>>,
               qres |-> "none", webhooks |-> <<>>]
    /\ attempts = NoAttempts
    /\ requests = <<>>
    /\ queries = 0

\* per form, one submission its schema refuses and one it accepts
SampleContactValues ==
    {v \in ContactValues : /\ v.name = "Ann"
                           /\ v.status = "Lead"
                           /\ v.email \in {<<"ann">>, <<"ann", "@", "x", ".", "org">>}}

SampleActivityLogValues ==
    {v \in ActivityLogValues : v.action \in {"", "Called"} /\ v.description = "d"}

SampleWebhookFormValues ==
    {v \in WebhookFormValues : /\ v.event_trigger \in {"", "activity.created"}
                               /\ v.url = AbsPath
                               /\ v.description = "d"}

\* CreateContactForm, AddActivityLogForm and AddWebhookForm, and the
\* dispatcher behind them
NextForms ==
    \/ \E values \in SampleContactValues : SubmitContact(values)
    \/ ContactInsertFails
    \/ ContactInsertReturns
    \/ CreatedLogInserted
    \/ \E thrown \in BOOLEAN : CreatedLogFails(thrown)
    \/ \E values \in SampleActivityLogValues : SubmitActivityLog(values)
    \/ ActivityInsertFails
    \/ ActivityInsertReturns
    \/ \E stored \in BOOLEAN : ActivityInsertReturnsNothing(stored)
    \/ \E values \in SampleWebhookFormValues : SubmitWebhook(values)
    \/ \E outcome \in {"ok", "23505", "other"} : WebhookInsertResolves(outcome)
    \/ DispatcherStep

SpecForms == InitForms /\ [][NextForms]_vars

\* a form has just been submitted with values its schema accepts
ValidSubmit ==
    /\ ~ui.loading
    /\ ui' # ui
    /\ ui'.pc # "invalid"

\* C30: while nobody is signed in, no step of CreateContactForm,
\* AddActivityLogForm or AddWebhookForm writes to a table or hands anything
\* to the dispatcher, none calls onSuccess, and the loading flag stays false;
\* a submission that passes the schema ends at once with the error toast.
C30_NoSessionNoEffect ==
    [][user = NoSession =>
          /\ contacts' = contacts
          /\ activity_logs' = activity_logs
          /\ registry' = registry
          /\ dispatches' = dispatches
          /\ call' = call
          /\ requests' = requests
          /\ ~ui'.loading
          /\ ~ui'.onSuccess
          /\ ~ui'.inserted
          /\ ValidSubmit =>
                 /\ ui'.form \in {"createContact", "activity", "addWebhook"}
                 /\ ui'.pc = "done"
                 /\ ui'.toast = "error"]_vars

\* C30 witness: with nobody signed in, a valid AddWebhookForm has been
\* submitted and turned down.
C30_Witness ==
    /\ user = NoSession
    /\ ui.form = "addWebhook"
    /\ ui.pc = "done"
    /\ ui.toast = "error"
    /\ ~ui.loading

====
